---- MODULE Spec2Model ----
(***************************************************************************)
(* Model of the vfs package: the in-memory tree (bindata dir/file), the    *)
(* disk-backed nativeFS, and the two wrappers fallbackFS and subdir.       *)
(*                                                                         *)
(* A Go path string is a record [abs, el]: abs says whether the string     *)
(* starts with the separator, el is the sequence of its components.        *)
(*   ""  = [abs |-> FALSE, el |-> <<>>]     "/" = [abs |-> TRUE, el |-> <<>>]*)
(*   "." = [abs |-> FALSE, el |-> <<".">>]  "a/b" = [FALSE, <<"a","b">>]   *)
(* The in-memory tree of *dir / *file nodes is kept flat: a node is named  *)
(* by the sequence of map keys that leads to it from Root.                 *)
(***************************************************************************)
EXTENDS Integers, Sequences, FiniteSets, TLC

VARIABLES root, nregs, latest, overwritten, call, handles, readers, fsys, fault

vars == <<root, nregs, latest, overwritten, call, handles, readers, fsys, fault>>

-----------------------------------------------------------------------------
(* Bounds and input sets *)

MaxElems == 2
MaxRegs == 2
MaxOff == 3
MaxChain == 2
MaxFail == 2

Names == {"a", "b"}
Elems == Names \cup {".", ".."}
None == [type |-> "none"]
NoCall == [op |-> "none"]
HandleIds == {"h1", "h2"}

SeqsUpTo(S, n) == UNION {[1..k -> S] : k \in 0..n}
Front(s) == SubSeq(s, 1, Len(s) - 1)
S(el) == [abs |-> FALSE, el |-> el]
A(el) == [abs |-> TRUE, el |-> el]

\* every path string of at most MaxElems components
RawPaths == [abs : BOOLEAN, el : SeqsUpTo(Elems, MaxElems)]
\* the paths handed to RegisterFile: each names a file
RegPaths == {S(<<"a">>), S(<<"b">>), S(<<"a", "a">>), S(<<"a", "b">>),
             S(<<"b", "a">>), A(<<"b", "b">>), A(<<"a">>), S(<<".", "b">>)}
RegInputs == {[mod |-> 100, data |-> <<7>>], [mod |-> 200, data |-> <<8, 255>>]}
WalkRoots == {S(<<>>), S(<<".">>), A(<<>>), S(<<"a">>), A(<<"a">>), S(<<"b">>),
              S(<<"a", "b">>), S(<<"..">>)}

EmptyStr == S(<<>>)
Dot == S(<<".">>)
DotDot == S(<<"..">>)

-----------------------------------------------------------------------------
(* path/filepath and strings, as the code uses them *)

RECURSIVE CleanEl(_, _, _)
CleanEl(abs, el, out) ==
    IF el = <<>> THEN out
    ELSE LET c == Head(el)
             r == Tail(el)
         IN  IF c = "." THEN CleanEl(abs, r, out)
             ELSE IF c = ".."
                  THEN IF out # <<>> /\ out[Len(out)] # ".."
                       THEN CleanEl(abs, r, Front(out))
                       ELSE IF abs THEN CleanEl(abs, r, out)
                            ELSE CleanEl(abs, r, Append(out, ".."))
                  ELSE CleanEl(abs, r, Append(out, c))

\* filepath.Clean: "" and every relative path that cancels out become "."
Clean(path) ==
    LET o == CleanEl(path.abs, path.el, <<>>)
    IN  IF o = <<>> /\ ~path.abs THEN Dot ELSE [abs |-> path.abs, el |-> o]

\* strings.TrimLeft(s, "/")
TrimLeft(path) == [abs |-> FALSE, el |-> path.el]

\* filepath.Join of two elements: empty elements are ignored, the rest is
\* joined by the separator and cleaned
Join(a, b) ==
    IF a = EmptyStr THEN (IF b = EmptyStr THEN EmptyStr ELSE Clean(b))
    ELSE Clean([abs |-> a.abs, el |-> a.el \o b.el])

-----------------------------------------------------------------------------
(* errors *)

Nil == [type |-> "nil", Op |-> "", Path |-> EmptyStr, Err |-> ""]
PathError(op, path, err) == [type |-> "PathError", Op |-> op, Path |-> path, Err |-> err]
PlainError(err) == [type |-> "error", Op |-> "", Path |-> EmptyStr, Err |-> err]

\* os.IsNotExist: unwraps a *PathError, then compares with ErrNotExist
IsNotExist(err) == err.Err = "ErrNotExist"

-----------------------------------------------------------------------------
(* the in-memory tree *)

\* Root before any registration
EmptyDir == [files |-> <<>>, dirs |-> {}]

FileNames(d, node) == {f[Len(f)] : f \in {g \in DOMAIN d.files : Front(g) = node}}
DirNames(d, node) == {n[Len(n)] : n \in {g \in d.dirs : Front(g) = node}}

\* an opened *file: the stored name and mod, and a new bytes.Reader over data
file(d, node, name) ==
    LET f == d.files[Append(node, name)]
    IN  [name |-> f.name, mod |-> f.mod, Reader |-> [s |-> f.data, i |-> 0]]

OkFile(f) == [ok |-> TRUE, kind |-> "file", node |-> <<>>, f |-> f, err |-> Nil]
OkDir(node) == [ok |-> TRUE, kind |-> "dir", node |-> node, f |-> None, err |-> Nil]
Fail(err) == [ok |-> FALSE, kind |-> "", node |-> <<>>, f |-> None, err |-> err]

RECURSIVE OpenFrom(_, _, _, _)
OpenFrom(d, path, i, current) ==
    LET c == path.el[i]
        next == Append(current, c)
    IN  IF i < Len(path.el)
        THEN IF next \in d.dirs
             THEN OpenFrom(d, path, i + 1, next)
             ELSE Fail(PathError("open", path, "ErrNotExist"))
        ELSE IF next \in DOMAIN d.files THEN OkFile(file(d, current, c))
             ELSE IF next \in d.dirs THEN OkDir(next)
                  ELSE Fail(PathError("open", path, "ErrNotExist"))

OpenDirsFirst(d, name) ==
    LET path == TrimLeft(Clean(name))
    IN  IF path = EmptyStr \/ path = DotDot
        THEN Fail(PathError("open", path, "ErrNotExist"))
        ELSE IF path = Dot THEN OkDir(<<>>)
             ELSE IF path.el \in d.dirs THEN OkDir(path.el)
                  ELSE OpenFrom(d, path, 1, <<>>)

OpenNoClean(d, name) ==
    LET path == TrimLeft(name)
    IN  IF path = EmptyStr \/ path = DotDot
        THEN Fail(PathError("open", path, "ErrNotExist"))
        ELSE IF path = Dot THEN OkDir(<<>>)
             ELSE OpenFrom(d, path, 1, <<>>)

\* dir.Open on Root
Open(d, name) ==
    LET path == TrimLeft(Clean(name))
    IN  IF path = EmptyStr \/ path = DotDot
        THEN Fail(PathError("open", path, "ErrNotExist"))
        ELSE IF path = Dot THEN OkDir(<<>>)
             ELSE OpenFrom(d, path, 1, <<>>)

\* bindata.RegisterFile: creates the missing directories along the
\* normalized path and stores the file under its last component
RegisterFile(d, name, mod, data) ==
    LET el == TrimLeft(Clean(name)).el
        n == Len(el)
    IN  [dirs |-> d.dirs \cup {SubSeq(el, 1, k) : k \in 1..(n - 1)},
         files |-> (el :> [name |-> el[n], mod |-> mod, data |-> data]) @@ d.files]

\* *bytes.Reader.Size, which *file promotes as os.FileInfo.Size
Size(f) == Len(f.Reader.s)

-----------------------------------------------------------------------------
(* the visitor (a filepath.WalkFunc): it answers nil, except on its failAt-th
   invocation, where it answers failWith *)

VisitorErrs == {PlainError("abort"), PlainError("ErrNotExist"), PlainError("SkipDir")}
Visitors == {[failAt |-> 0, failWith |-> Nil]}
            \cup [failAt : 1..MaxFail, failWith : VisitorErrs]

FnRet(fn, k) == IF k = fn.failAt THEN fn.failWith ELSE Nil

\* one invocation fn(path, info, err); vs are the invocations so far
Visit(fn, vs, path, info, err) ==
    Append(vs, [path |-> path, info |-> info, err |-> err, ret |-> FnRet(fn, Len(vs) + 1)])

DirInfo(node) == [isDir |-> TRUE, node |-> node]
FileInfo(node) == [isDir |-> FALSE, node |-> node]

\* the orders in which a Go map may be ranged over
Orderings(K) == {o \in [1..Cardinality(K) -> K] : \A i, j \in DOMAIN o : i # j => o[i] # o[j]}

RECURSIVE VisitFiles(_, _, _, _, _)
VisitFiles(node, path, fn, vs, o) ==
    IF o = <<>> THEN vs
    ELSE VisitFiles(node, path, fn,
                    Visit(fn, vs, Join(path, S(<<Head(o)>>)), FileInfo(Append(node, Head(o))), Nil),
                    Tail(o))

RECURSIVE walk(_, _, _, _, _)
RECURSIVE walkDirs(_, _, _, _, _, _)

\* the loop over d.dirs; V is the set of possible invocation sequences so far
walkDirs(d, node, path, fn, V, o) ==
    IF o = <<>> THEN V
    ELSE walkDirs(d, node, path, fn,
                  UNION {walk(d, Append(node, Head(o)), Join(path, S(<<Head(o)>>)), fn, vs) : vs \in V},
                  Tail(o))

\* a walk that reports a directory after its files
walkFilesFirst(d, node, path, fn, vs) ==
    LET afterFiles == {Visit(fn, VisitFiles(node, path, fn, vs, o), path, DirInfo(node), Nil) :
                          o \in Orderings(FileNames(d, node))}
    IN  UNION {walkDirs(d, node, path, fn, afterFiles, o) : o \in Orderings(DirNames(d, node))}

\* dir.walk: the set of invocation sequences it may produce; the visitor's
\* answers are dropped and nil is returned
walk(d, node, path, fn, vs) ==
    LET v0 == Visit(fn, vs, path, DirInfo(node), Nil)
        afterFiles == {VisitFiles(node, path, fn, v0, o) : o \in Orderings(FileNames(d, node))}
    IN  UNION {walkDirs(d, node, path, fn, afterFiles, o) : o \in Orderings(DirNames(d, node))}

WalkRet(vs, err) == [visits |-> vs, err |-> err]

\* a Walk that hands a file to the visitor instead of refusing it
WalkVisitsFile(d, path, fn, vs) ==
    LET targetDir == Open(d, path)
    IN  IF ~targetDir.ok THEN {WalkRet(vs, targetDir.err)}
        ELSE IF targetDir.kind = "dir"
             THEN {WalkRet(v, Nil) : v \in walk(d, targetDir.node, path, fn, vs)}
             ELSE {WalkRet(Visit(fn, vs, path, FileInfo(<<>>), Nil),
                           PathError("walk", path, "errIsFile"))}

\* dir.Walk: the set of its possible outcomes
Walk(d, path, fn, vs) ==
    LET targetDir == Open(d, path)
    IN  IF ~targetDir.ok THEN {WalkRet(vs, targetDir.err)}
        ELSE IF targetDir.kind = "dir"
             THEN {WalkRet(v, Nil) : v \in walk(d, targetDir.node, path, fn, vs)}
             ELSE {WalkRet(vs, PathError("walk", path, "errIsFile"))}

-----------------------------------------------------------------------------
(* The in-memory tree: registrations, then one Open or one Walk on Root *)

Idle == [h \in HandleIds |-> None]

TreeInit ==
    /\ root = EmptyDir
    /\ nregs = 0
    /\ latest = <<>>
    /\ overwritten = {}
    /\ call = NoCall
    /\ handles = Idle
    /\ readers = <<>>
    /\ fsys = None
    /\ fault = None

\* RegisterFile(name, mod, data); latest and overwritten record what was
\* registered, by normalized path
RegisterFileAct ==
    /\ call = NoCall
    /\ nregs < MaxRegs
    /\ \E name \in RegPaths, r \in RegInputs :
          LET key == TrimLeft(Clean(name)).el
          IN  /\ root' = RegisterFile(root, name, r.mod, r.data)
              /\ latest' = (key :> r.data) @@ latest
              /\ overwritten' = IF key \in DOMAIN latest /\ latest[key] # r.data
                                THEN overwritten \cup {key}
                                ELSE overwritten
    /\ nregs' = nregs + 1
    /\ UNCHANGED <<call, handles, readers, fsys, fault>>

OpenAct ==
    /\ call = NoCall
    /\ \E name \in RawPaths :
          call' = [op |-> "Open", name |-> name, res |-> Open(root, name)]
    /\ UNCHANGED <<root, nregs, latest, overwritten, handles, readers, fsys, fault>>

WalkAct ==
    /\ call = NoCall
    /\ \E path \in WalkRoots, fn \in Visitors :
          \E r \in Walk(root, path, fn, <<>>) :
             call' = [op |-> "Walk", name |-> path, fn |-> fn,
                      visits |-> r.visits, err |-> r.err]
    /\ UNCHANGED <<root, nregs, latest, overwritten, handles, readers, fsys, fault>>

TreeNext == RegisterFileAct \/ OpenAct \/ WalkAct

SpecTree == TreeInit /\ [][TreeNext]_vars

-----------------------------------------------------------------------------
(* Claims about the in-memory tree, checked under SpecTree *)

Key(name) == TrimLeft(Clean(name)).el
IsPrefix(p, q) == Len(p) <= Len(q) /\ SubSeq(q, 1, Len(p)) = p
NotExistAt(res, path) == ~res.ok /\ res.err = PathError("open", path, "ErrNotExist")

\* C4, as stated: Open("") and Open("..") fail with NotExist, and Open(".")
\* returns the root directory
C4_AsStated ==
    call.op = "Open" =>
       /\ (call.name \in {EmptyStr, DotDot} => ~call.res.ok /\ IsNotExist(call.res.err))
       /\ (call.name = Dot => call.res = OkDir(<<>>))

\* C4, amended: Open("..") and Open("/") fail with NotExist; Open(".") and
\* Open("") return the root directory, whatever the tree holds
C4_DotPaths ==
    call.op = "Open" =>
       /\ (call.name = DotDot => NotExistAt(call.res, DotDot))
       /\ (call.name = A(<<>>) => NotExistAt(call.res, EmptyStr))
       /\ (call.name \in {Dot, EmptyStr} => call.res = OkDir(<<>>))

C4_Witness ==
    /\ call.op = "Open"
    /\ call.name = EmptyStr
    /\ call.res = OkDir(<<>>)
    /\ nregs = MaxRegs

\* C5: Open of a registered path succeeds with a handle, positioned at 0,
\* over the bytes of the latest registration of that path, and its size is
\* their length
C5_OpenReturnsLatest ==
    (call.op = "Open" /\ Key(call.name) \in DOMAIN latest) =>
       /\ call.res.ok
       /\ call.res.kind = "file"
       /\ call.res.f.Reader = [s |-> latest[Key(call.name)], i |-> 0]
       /\ Size(call.res.f) = Len(latest[Key(call.name)])
       /\ call.res.f.name = Key(call.name)[Len(Key(call.name))]

\* a path registered twice with different bytes, then opened
C5_Witness ==
    /\ call.op = "Open"
    /\ Key(call.name) \in overwritten
    /\ call.res.ok
    /\ call.res.f.Reader.s = latest[Key(call.name)]

\* the entries at or below directory node D
Below(d, D) ==
    {DirInfo(n) : n \in {m \in d.dirs \cup {<<>>} : IsPrefix(D, m)}}
    \cup {FileInfo(f) : f \in {g \in DOMAIN d.files : IsPrefix(D, Front(g))}}

WalkedDir == call.op = "Walk" /\ Open(root, call.name).ok /\ Open(root, call.name).kind = "dir"

\* C6: a walk of a directory D reports D and every entry below it exactly
\* once, each entry after the directory that holds it
C6_Preorder ==
    WalkedDir =>
       LET D == Open(root, call.name).node
           vs == call.visits
       IN  /\ call.err = Nil
           /\ {vs[i].info : i \in DOMAIN vs} = Below(root, D)
           /\ Len(vs) = Cardinality(Below(root, D))
           /\ vs[1].info = DirInfo(D)
           /\ \A i \in DOMAIN vs :
                 i > 1 => \E j \in 1..(i - 1) : vs[j].info = DirInfo(Front(vs[i].info.node))

\* a walk through a subdirectory that holds a file
C6_Witness ==
    /\ WalkedDir
    /\ Len(call.visits) >= 3
    /\ \E i, j \in DOMAIN call.visits :
          /\ i < j
          /\ call.visits[i].info.isDir
          /\ call.visits[i].info.node # Open(root, call.name).node
          /\ ~call.visits[j].info.isDir
          /\ Front(call.visits[j].info.node) = call.visits[i].info.node

WalkedFile == call.op = "Walk" /\ Open(root, call.name).ok /\ Open(root, call.name).kind = "file"

\* C7: a walk of a path that resolves to a file fails with IsFile and never
\* invokes the visitor
C7_WalkFileIsFile ==
    WalkedFile =>
       /\ call.err = PathError("walk", call.name, "errIsFile")
       /\ call.visits = <<>>

C7_Witness == WalkedFile /\ call.err.Err = "errIsFile" /\ call.fn.failAt = 1

-----------------------------------------------------------------------------
(* Handles: on a registered tree, Open of files into the caller's handle
   variables h1, h2, and Read and Seek on them.  readers is the heap of
   bytes.Reader objects; an opened *file points to one of them. *)

Min(x, y) == IF x <= y THEN x ELSE y

\* (*bytes.Reader).Read with a buffer of n bytes
ReaderRead(r, n) ==
    IF r.i >= Len(r.s) THEN r
    ELSE [r EXCEPT !.i = r.i + Min(n, Len(r.s) - r.i)]

\* (*bytes.Reader).Seek; a negative position or an unknown whence is an error
\* and leaves the reader as it is
ReaderSeek(r, offset, whence) ==
    LET abs == CASE whence = 0 -> offset
                 [] whence = 1 -> r.i + offset
                 [] whence = 2 -> Len(r.s) + offset
                 [] OTHER -> -1
    IN  IF abs < 0 THEN r ELSE [r EXCEPT !.i = abs]

\* an Open that hands out the reader of a handle already open on the file
OpenFileShared(h, name) ==
    LET res == Open(root, name)
        same == {g \in HandleIds : handles[g] # None /\ handles[g].key = Key(name)}
    IN  /\ handles[h] = None
        /\ res.ok /\ res.kind = "file"
        /\ IF same = {}
           THEN /\ readers' = Append(readers, res.f.Reader)
                /\ handles' = [handles EXCEPT ![h] =
                      [name |-> res.f.name, mod |-> res.f.mod, key |-> Key(name),
                       Reader |-> Len(readers) + 1]]
           ELSE LET g == CHOOSE x \in same : TRUE
                IN  /\ readers' = [readers EXCEPT ![handles[g].Reader] = res.f.Reader]
                    /\ handles' = [handles EXCEPT ![h] = handles[g]]
        /\ UNCHANGED <<root, nregs, latest, overwritten, call, fsys, fault>>

\* h, err := Root.Open(name), for a name that opens as a file
OpenFile(h, name) ==
    LET res == Open(root, name)
    IN  /\ handles[h] = None
        /\ res.ok /\ res.kind = "file"
        /\ readers' = Append(readers, res.f.Reader)
        /\ handles' = [handles EXCEPT ![h] =
              [name |-> res.f.name, mod |-> res.f.mod, key |-> Key(name),
               Reader |-> Len(readers) + 1]]
        /\ UNCHANGED <<root, nregs, latest, overwritten, call, fsys, fault>>

ReadAct(h, n) ==
    /\ handles[h] # None
    /\ readers' = [readers EXCEPT ![handles[h].Reader] = ReaderRead(@, n)]
    /\ UNCHANGED <<root, nregs, latest, overwritten, call, handles, fsys, fault>>

SeekAct(h, offset, whence) ==
    /\ handles[h] # None
    /\ ReaderSeek(readers[handles[h].Reader], offset, whence).i <= MaxOff
    /\ readers' = [readers EXCEPT ![handles[h].Reader] = ReaderSeek(@, offset, whence)]
    /\ UNCHANGED <<root, nregs, latest, overwritten, call, handles, fsys, fault>>

\* Root after RegisterFile("a/a"), RegisterFile("b"), RegisterFile("c")
FsTree ==
    RegisterFile(RegisterFile(RegisterFile(EmptyDir, S(<<"a", "a">>), 100, <<7>>),
                              S(<<"b">>), 200, <<8, 255>>),
                 S(<<"c">>), 100, <<7>>)

FsPaths == {S(<<>>), S(<<".">>), S(<<"a">>), A(<<"a">>), S(<<"b">>), S(<<"c">>),
            S(<<"d">>), S(<<"a", "a">>), S(<<"a", "b">>), S(<<"..">>), S(<<"..", "b">>)}

\* the arguments given to Seek: every whence, a bad whence, offsets on
\* both sides of 0
SeekArgs == [offset : (-1)..MaxOff, whence : {0}]
            \cup [offset : {-1, 0, 1}, whence : {1, 2, 3}]

HandleInit ==
    /\ root = FsTree
    /\ nregs = Cardinality(DOMAIN FsTree.files)
    /\ latest = <<>>
    /\ overwritten = {}
    /\ call = NoCall
    /\ handles = Idle
    /\ readers = <<>>
    /\ fsys = None
    /\ fault = None

OpenFileAct == \E h \in HandleIds, name \in FsPaths : OpenFile(h, name)
ReadFileAct == \E h \in HandleIds, n \in 1..MaxOff : ReadAct(h, n)
SeekFileAct == \E h \in HandleIds, a \in SeekArgs : SeekAct(h, a.offset, a.whence)

HandleNext == OpenFileAct \/ ReadFileAct \/ SeekFileAct

SpecHandle == HandleInit /\ [][HandleNext]_vars

Cursor(h) == readers[handles[h].Reader].i
Bytes(h) == readers[handles[h].Reader].s

\* C9: every Open of a file yields a handle whose cursor starts at 0, and a
\* Read or Seek on one handle leaves every other handle's cursor, and the
\* stored bytes, as they were
C9_IndependentCursors ==
    [][\A h \in HandleIds :
          /\ (\E name \in FsPaths : OpenFile(h, name)) =>
                /\ Cursor(h)' = 0
                /\ Bytes(h)' = root.files[handles'[h].key].data
          /\ ((\E name \in FsPaths : OpenFile(h, name))
              \/ (\E n \in 1..MaxOff : ReadAct(h, n))
              \/ (\E a \in SeekArgs : SeekAct(h, a.offset, a.whence))) =>
                /\ root' = root
                /\ \A g \in HandleIds \ {h} :
                      handles[g] # None =>
                         /\ handles'[g] = handles[g]
                         /\ Cursor(g)' = Cursor(g)
                         /\ Bytes(g)' = Bytes(g)]_vars

\* two handles on the same file, one read to its end and one still at 0
C9_Witness ==
    /\ handles["h1"] # None
    /\ handles["h2"] # None
    /\ handles["h1"].key = handles["h2"].key
    /\ Cursor("h1") = Len(Bytes("h1"))
    /\ Cursor("h1") = 2
    /\ Cursor("h2") = 0

-----------------------------------------------------------------------------
(* The host file system that nativeFS reads.  Nodes are named from the
   working directory; fault, when set, makes os.Lstat and os.Open fail on
   one node (a file that vanished, or one the process may not reach). *)

HostDirs == {<<>>, <<"srv">>, <<"srv", "a">>}
HostFiles == (<<"srv", "a", "a">> :> <<1>>) @@ (<<"srv", "a", "b">> :> <<2>>)
             @@ (<<"srv", "b">> :> <<3>>)
Faults == {None} \cup [path : {<<"srv", "a", "b">>}, err : {"ErrNotExist", "ErrPermission"}]

\* the node a clean relative path names
PathEl(path) == IF path = Dot THEN <<>> ELSE path.el

\* os.Lstat
Lstat(path) ==
    LET node == PathEl(path)
    IN  IF fault # None /\ fault.path = node
        THEN [err |-> PathError("lstat", path, fault.err), info |-> None]
        ELSE IF node \in HostDirs THEN [err |-> Nil, info |-> DirInfo(node)]
        ELSE IF node \in DOMAIN HostFiles THEN [err |-> Nil, info |-> FileInfo(node)]
        ELSE [err |-> PathError("lstat", path, "ErrNotExist"), info |-> None]

\* readDirNames: the names in a directory, sorted
NameOrder == <<"a", "b", "srv">>
Rank(n) == CHOOSE i \in DOMAIN NameOrder : NameOrder[i] = n
readDirNames(node) ==
    LET K == {h[Len(h)] : h \in {g \in HostDirs \cup DOMAIN HostFiles :
                                    g # <<>> /\ Front(g) = node}}
    IN  CHOOSE o \in Orderings(K) : \A i, j \in DOMAIN o : i < j => Rank(o[i]) < Rank(o[j])

RECURSIVE CommonLen(_, _)
CommonLen(b, t) ==
    IF b # <<>> /\ t # <<>> /\ Head(b) = Head(t) THEN 1 + CommonLen(Tail(b), Tail(t)) ELSE 0

\* filepath.Rel of two relative paths; it returns no error when the base,
\* here the Dir of a nativeFS, has no ".." component
Rel(basepath, targpath) ==
    LET b == PathEl(Clean(basepath))
        t == PathEl(Clean(targpath))
        k == CommonLen(b, t)
        r == [i \in 1..(Len(b) - k) |-> ".."] \o SubSeq(t, k + 1, Len(t))
    IN  IF r = <<>> THEN Dot ELSE S(r)

\* the function stripPrefixWalkFunc returns, invoked once: an incoming error
\* goes back as it is, without f being invoked
stripPrefixWalkFunc(f, prefix, vs, path, info, err) ==
    IF err # Nil THEN WalkRet(vs, err)
    ELSE LET v == Visit(f, vs, Rel(prefix, Clean(path)), info, Nil)
         IN  WalkRet(v, v[Len(v)].ret)

SkipDir == PlainError("SkipDir")

RECURSIVE fpwalk(_, _, _, _, _)
RECURSIVE fpwalkNames(_, _, _, _, _)

\* the loop of filepath's walk over the names of a directory
fpwalkNames(path, names, f, prefix, vs) ==
    IF names = <<>> THEN WalkRet(vs, Nil)
    ELSE LET filename == Join(path, S(<<Head(names)>>))
             st == Lstat(filename)
         IN  IF st.err # Nil
             THEN LET r == stripPrefixWalkFunc(f, prefix, vs, filename, st.info, st.err)
                  IN  IF r.err # Nil /\ r.err # SkipDir THEN r
                      ELSE fpwalkNames(path, Tail(names), f, prefix, r.visits)
             ELSE LET r == fpwalk(filename, st.info, f, prefix, vs)
                  IN  IF r.err # Nil /\ (~st.info.isDir \/ r.err # SkipDir) THEN r
                      ELSE fpwalkNames(path, Tail(names), f, prefix, r.visits)

\* filepath's walk
fpwalk(path, info, f, prefix, vs) ==
    IF ~info.isDir THEN stripPrefixWalkFunc(f, prefix, vs, path, info, Nil)
    ELSE LET r == stripPrefixWalkFunc(f, prefix, vs, path, info, Nil)
         IN  IF r.err # Nil THEN r
             ELSE fpwalkNames(path, readDirNames(info.node), f, prefix, r.visits)

\* filepath.Walk
filepathWalk(path, f, prefix, vs) ==
    LET st == Lstat(path)
        r == IF st.err # Nil
             THEN stripPrefixWalkFunc(f, prefix, vs, path, st.info, st.err)
             ELSE fpwalk(path, st.info, f, prefix, vs)
    IN  IF r.err = SkipDir THEN WalkRet(r.visits, Nil) ELSE r

\* nativeFS.Walk
NativeWalk(fs, path, f, vs) == filepathWalk(Join(fs.Dir, path), f, fs.Dir, vs)

\* http.Dir.Open: the name is cleaned as a rooted path and joined onto Dir
NativeOpen(fs, name) ==
    LET fullName == Join(fs.Dir, A(CleanEl(TRUE, name.el, <<>>)))
        node == PathEl(fullName)
    IN  IF fault # None /\ fault.path = node
        THEN Fail(PathError("open", fullName, fault.err))
        ELSE IF node \in DOMAIN HostFiles
             THEN OkFile([name |-> node[Len(node)], mod |-> 0,
                          Reader |-> [s |-> HostFiles[node], i |-> 0]])
        ELSE IF node \in HostDirs THEN OkDir(node)
        ELSE Fail(PathError("open", fullName, "ErrNotExist"))

-----------------------------------------------------------------------------
(* The FileSystem values: bindata.Root, Native, Fallback and Subdir *)

Root == [type |-> "dir"]
Native(dir) == [type |-> "native", Dir |-> dir]
Fallback(list) == [type |-> "fallback", list |-> list]
Subdir(fs, path) == [type |-> "subdir", fs |-> fs, path |-> path]

\* the zero values (nil, nil) that fallbackFS.Open starts from
NilFile == [ok |-> TRUE, kind |-> "nil", node |-> <<>>, f |-> None, err |-> Nil]

OpenRet(res, log) == [res |-> res, log |-> log]
FsWalkRet(vs, err, log) == [visits |-> vs, err |-> err, log |-> log]

RECURSIVE FsOpen(_, _)
RECURSIVE FsWalk(_, _, _, _)
RECURSIVE fallbackOpenFrom(_, _, _, _, _)
RECURSIVE fallbackWalkFrom(_, _, _, _, _, _)

\* a loop that goes on after a backend has opened the name
fallbackOpenNoBreak(list, name, i, res, log) ==
    IF i > Len(list) THEN OpenRet(res, log)
    ELSE LET r == FsOpen(list[i], name).res
         IN  fallbackOpenFrom(list, name, i + 1, r, Append(log, [i |-> i, res |-> r]))

\* the loop of fallbackFS.Open from the i-th backend on; res holds (f, err);
\* log lists the backends tried, with what each returned
fallbackOpenFrom(list, name, i, res, log) ==
    IF i > Len(list) THEN OpenRet(res, log)
    ELSE LET r == FsOpen(list[i], name).res
             tried == Append(log, [i |-> i, res |-> r])
         IN  IF r.ok THEN OpenRet(r, tried)
             ELSE fallbackOpenFrom(list, name, i + 1, r, tried)

\* a loop that, like Open, ends with the last backend's error
fallbackWalkLastErr(list, path, f, i, vs, log) ==
    IF i > Len(list)
    THEN {FsWalkRet(vs, IF log = <<>> THEN Nil ELSE log[Len(log)].err, log)}
    ELSE UNION {
           LET tried == Append(log, [i |-> i, err |-> r.err,
                                     delivered |-> Len(r.visits) - Len(vs)])
           IN  IF r.err = Nil THEN {FsWalkRet(r.visits, Nil, tried)}
               ELSE IF IsNotExist(r.err)
                    THEN fallbackWalkFrom(list, path, f, i + 1, r.visits, tried)
               ELSE {FsWalkRet(r.visits, r.err, tried)}
           : r \in FsWalk(list[i], path, f, vs)}

\* the loop of fallbackFS.Walk from the i-th backend on, as the set of its
\* possible outcomes; log lists the backends tried, with the error each
\* returned and the number of entries it handed to the visitor
fallbackWalkFrom(list, path, f, i, vs, log) ==
    IF i > Len(list) THEN {FsWalkRet(vs, Nil, log)}
    ELSE UNION {
           LET tried == Append(log, [i |-> i, err |-> r.err,
                                     delivered |-> Len(r.visits) - Len(vs)])
           IN  IF r.err = Nil THEN {FsWalkRet(r.visits, Nil, tried)}
               ELSE IF IsNotExist(r.err)
                    THEN fallbackWalkFrom(list, path, f, i + 1, r.visits, tried)
               ELSE IF r.err.type = "PathError" /\ r.err.Err = "ErrNotExist" /\ r.err.Path = path
                    THEN fallbackWalkFrom(list, path, f, i + 1, r.visits, tried)
               ELSE {FsWalkRet(r.visits, r.err, tried)}
           : r \in FsWalk(list[i], path, f, vs)}

\* fallbackFS.Open
fallbackOpen(fs, name) == fallbackOpenFrom(fs.list, name, 1, NilFile, <<>>)

\* fallbackFS.Walk
fallbackWalk(fs, path, f, vs) == fallbackWalkFrom(fs.list, path, f, 1, vs, <<>>)

\* an Open that forgets the prefix
subdirOpenNoPrefix(fs, name) == FsOpen(fs.fs, name)

\* subdir.Open
subdirOpen(fs, name) == FsOpen(fs.fs, Join(fs.path, name))

\* subdir.Walk
subdirWalk(fs, path, f, vs) == FsWalk(fs.fs, Join(fs.path, path), f, vs)

\* FileSystem.Open, by the dynamic type of fs
FsOpen(fs, name) ==
    CASE fs.type = "dir" -> OpenRet(Open(root, name), <<>>)
      [] fs.type = "native" -> OpenRet(NativeOpen(fs, name), <<>>)
      [] fs.type = "fallback" -> fallbackOpen(fs, name)
      [] fs.type = "subdir" -> subdirOpen(fs, name)

\* FileSystem.Walk, by the dynamic type of fs: the set of possible outcomes
FsWalk(fs, path, f, vs) ==
    CASE fs.type = "dir" -> {FsWalkRet(r.visits, r.err, <<>>) : r \in Walk(root, path, f, vs)}
      [] fs.type = "native" ->
            LET r == NativeWalk(fs, path, f, vs) IN {FsWalkRet(r.visits, r.err, <<>>)}
      [] fs.type = "fallback" -> fallbackWalk(fs, path, f, vs)
      [] fs.type = "subdir" -> subdirWalk(fs, path, f, vs)

-----------------------------------------------------------------------------
(* Composition: a FileSystem is built from Root and Native("srv") with
   Subdir and Fallback, the host may carry a fault, and one Open or one
   Walk is made on the result *)

Leaves == {Root, Native(S(<<"srv">>))}
Prefixes == {S(<<"a">>), S(<<"d">>)}
Members == Leaves \cup {Subdir(l, x) : l \in Leaves, x \in Prefixes}
Chains == {Fallback(list) : list \in SeqsUpTo(Members, MaxChain)}
TopFS == Members \cup Chains \cup {Subdir(c, S(<<"a">>)) : c \in Chains}

FsInit ==
    /\ root = FsTree
    /\ nregs = Cardinality(DOMAIN FsTree.files)
    /\ latest = <<>>
    /\ overwritten = {}
    /\ call = NoCall
    /\ handles = Idle
    /\ readers = <<>>
    /\ fsys \in TopFS
    /\ fault \in Faults

FsOpenAct ==
    /\ call = NoCall
    /\ \E name \in FsPaths :
          LET r == FsOpen(fsys, name)
          IN  call' = [op |-> "Open", name |-> name, res |-> r.res, log |-> r.log]
    /\ UNCHANGED <<root, nregs, latest, overwritten, handles, readers, fsys, fault>>

FsWalkAct ==
    /\ call = NoCall
    /\ \E path \in FsPaths, fn \in Visitors :
          \E r \in FsWalk(fsys, path, fn, <<>>) :
             call' = [op |-> "Walk", name |-> path, fn |-> fn,
                      visits |-> r.visits, err |-> r.err, log |-> r.log]
    /\ UNCHANGED <<root, nregs, latest, overwritten, handles, readers, fsys, fault>>

FsNext == FsOpenAct \/ FsWalkAct

SpecFS == FsInit /\ [][FsNext]_vars

-----------------------------------------------------------------------------
(* Claims about the wrappers, checked under SpecFS *)

OnChain(op) == call.op = op /\ fsys.type = "fallback"

\* what the i-th backend of the chain returns for the call's own arguments
OwnOpen(i) == FsOpen(fsys.list[i], call.name).res
OwnWalks(i) == FsWalk(fsys.list[i], call.name, call.fn, <<>>)

\* C1, as stated: with a visitor that never fails, the chain's Walk goes on
\* to the next backend only after a not-found failure at root itself, that
\* is one returned before the backend handed any entry to the visitor
C1_NextOnlyAfterNotFoundAtRoot ==
    (OnChain("Walk") /\ call.fn.failAt = 0) =>
       \A k \in 2..Len(call.log) :
          /\ IsNotExist(call.log[k - 1].err)
          /\ call.log[k - 1].delivered = 0

\* C2, as stated: once the visitor has returned an error (other than the
\* SkipDir sentinel), it is not invoked again and Walk returns that error
C2_VisitorErrorEndsWalk ==
    call.op = "Walk" =>
       \A k \in DOMAIN call.visits :
          call.visits[k].ret \notin {Nil, SkipDir} =>
             /\ k = Len(call.visits)
             /\ call.err = call.visits[k].ret

\* C3: the chain's Open tries the backends in list order, stops at the
\* first that succeeds and returns its handle; when all fail it returns
\* the error of the last one
C3_OpenFirstSuccessElseLastError ==
    OnChain("Open") =>
       LET n == Len(fsys.list)
           succ == {i \in 1..n : OwnOpen(i).ok}
       IN  /\ \A k \in DOMAIN call.log :
                 call.log[k].i = k /\ call.log[k].res = OwnOpen(k)
           /\ IF succ # {}
              THEN LET m == CHOOSE i \in succ : \A j \in succ : i <= j
                   IN  Len(call.log) = m /\ call.res = OwnOpen(m)
              ELSE /\ Len(call.log) = n
                   /\ n > 0 => (~call.res.ok /\ call.res.err = OwnOpen(n).err)

\* the first backend fails, the second opens the file
C3_Witness ==
    /\ OnChain("Open")
    /\ Len(call.log) = 2
    /\ ~call.log[1].res.ok
    /\ call.res.ok /\ call.res.kind = "file"

\* C8: Open and Walk on a Subdir view return what the wrapped FileSystem
\* returns for the prefix joined with the caller's path, with the same
\* visitor invocations; the view exists whether or not the prefix does
C8_SubdirDelegates ==
    fsys.type = "subdir" =>
       /\ fsys = Subdir(fsys.fs, fsys.path)
       /\ call.op = "Open" =>
             OpenRet(call.res, call.log) = FsOpen(fsys.fs, Join(fsys.path, call.name))
       /\ call.op = "Walk" =>
             FsWalkRet(call.visits, call.err, call.log)
                \in FsWalk(fsys.fs, Join(fsys.path, call.name), call.fn, <<>>)

\* the view of Root at "a" opens "a" as the file registered as "a/a"
C8_Witness ==
    /\ fsys = Subdir(Root, S(<<"a">>))
    /\ call.op = "Open"
    /\ call.name = S(<<"a">>)
    /\ call.res.ok /\ call.res.kind = "file"
    /\ call.res.f.Reader.s = root.files[<<"a", "a">>].data

AllNotFoundAtRoot ==
    \A i \in DOMAIN fsys.list :
       \A r \in OwnWalks(i) : IsNotExist(r.err) /\ r.visits = <<>>

\* C10: when every backend's Walk fails with not-found at root (or there is
\* no backend), the chain's Walk tries each backend once, in list order,
\* never invokes the visitor, and returns nil
C10_AllNotFoundWalkReturnsNil ==
    (OnChain("Walk") /\ AllNotFoundAtRoot) =>
       /\ call.err = Nil
       /\ call.visits = <<>>
       /\ Len(call.log) = Len(fsys.list)
       /\ \A k \in DOMAIN call.log : call.log[k].i = k /\ IsNotExist(call.log[k].err)

\* two backends, neither has the root
C10_Witness ==
    /\ OnChain("Walk")
    /\ Len(fsys.list) = 2
    /\ AllNotFoundAtRoot
    /\ Len(call.log) = 2
    /\ call.err = Nil

====
